---- MODULE Spec2Model ----
(***************************************************************************)
(* A model of src/perplexity_api.py: the PerplexityAPI client.  One client *)
(* instance, its shared headers object, the call stack of call_api and     *)
(* verify_web_search, the request in flight, and the stream handler's     *)
(* position in the response lines.                                         *)
(*                                                                         *)
(* Python values are tagged records: [t |-> "null"] is None / JSON null,   *)
(* [t |-> "str", v |-> s], [t |-> "num", v |-> n], [t |-> "bool", v |-> b],*)
(* [t |-> "arr", v |-> <<...>>] a list and [t |-> "obj", v |-> [k |-> x]]  *)
(* a dict.  json.loads maps a JSON document to exactly these values.      *)
(***************************************************************************)
EXTENDS Integers, Sequences, FiniteSets, TLC

(***************************************************************************)
(* Bounds of the model.                                                    *)
(***************************************************************************)
\* the longest response body, in lines
MaxLines == 3

(***************************************************************************)
(* Python values.                                                          *)
(***************************************************************************)
None == [t |-> "null"]
Str(s) == [t |-> "str", v |-> s]
Num(n) == [t |-> "num", v |-> n]
Bool(b) == [t |-> "bool", v |-> b]
Arr(q) == [t |-> "arr", v |-> q]
Obj(f) == [t |-> "obj", v |-> f]

\* Python truthiness: `if x:` / `not x`
Truthy(x) ==
    CASE x.t = "null" -> FALSE
      [] x.t = "bool" -> x.v
      [] x.t = "num"  -> x.v # 0
      [] x.t = "str"  -> x.v # ""
      [] x.t = "arr"  -> Len(x.v) > 0
      [] x.t = "obj"  -> DOMAIN x.v # {}

\* `key in x` for a dict
HasKey(x, key) == x.t = "obj" /\ key \in DOMAIN x.v

(***************************************************************************)
(* Text on the wire.  A line of a response body is a sequence of tokens:   *)
(* the six characters "data: ", one blank, the literal "[DONE]", text that *)
(* is no JSON document, bytes that are no UTF-8, or the text of one JSON   *)
(* document (the token carries the value the document denotes).            *)
(***************************************************************************)
Lit(s) == [k |-> "lit", s |-> s]
Doc(j) == [k |-> "doc", j |-> j]
DataPrefix == Lit("data: ")
Blank == Lit(" ")
DoneText == Lit("[DONE]")
BadJson == Lit("{bad json")
BadUtf8 == Lit("\\xff")

\* str.startswith('data: ')
StartsWithData(text) == Len(text) > 0 /\ text[1] = DataPrefix

\* line_text[6:]
DropPrefix(text) == Tail(text)

RECURSIVE LStrip(_)
LStrip(text) ==
    IF Len(text) > 0 /\ text[1] = Blank THEN LStrip(Tail(text)) ELSE text

RECURSIVE RStrip(_)
RStrip(text) ==
    IF Len(text) > 0 /\ text[Len(text)] = Blank
    THEN RStrip(SubSeq(text, 1, Len(text) - 1))
    ELSE text

\* str.strip()
Strip(text) == RStrip(LStrip(text))

\* bytes.decode('utf-8'): fails on bytes that are no UTF-8
DecodeFails(line) == \E i \in 1..Len(line) : line[i] = BadUtf8

\* json.loads: surrounding whitespace is ignored, the rest must be one document
JsonLoads(text) ==
    LET s == Strip(text) IN
    IF Len(s) = 1 /\ s[1].k = "doc"
    THEN [ok |-> TRUE, value |-> s[1].j]
    ELSE [ok |-> FALSE, value |-> None]

(***************************************************************************)
(* _handle_stream, one line (lines 228-249).  The result says what the     *)
(* loop body did with the line:                                            *)
(*   "skip"   an empty line, nothing done (the `if line:` test)            *)
(*   "break"  the sentinel: "Stream completed" is printed, the loop ends   *)
(*   "decode" json.JSONDecodeError caught, the loop continues              *)
(*   "error"  another exception caught, the loop continues                 *)
(*   "print"  a fragment is printed                                        *)
(*   "quiet"  a chunk with nothing to print                                *)
(***************************************************************************)
Did(act, out) == [act |-> act, out |-> out]

\* a variant of line 235 that compares without strip()
IsDoneText_NoStrip(text) == text = <<DoneText>>

\* line 235: line_text.strip() == '[DONE]'
IsDoneText(text) == Strip(text) = <<DoneText>>

\* lines 240-243, on the decoded chunk
ChunkContent(json_response) ==
    IF json_response.t # "obj" THEN Did("error", None)      \* no .get
    ELSE
    LET choices == IF "choices" \in DOMAIN json_response.v
                   THEN json_response.v["choices"] ELSE None
    IN
    IF ~Truthy(choices) THEN Did("quiet", None)
    ELSE IF choices.t # "arr" THEN Did("error", None)        \* choices[0] fails or has no .get
    ELSE
    LET first == choices.v[1] IN
    IF first.t # "obj" THEN Did("error", None)               \* no .get
    ELSE IF "delta" \notin DOMAIN first.v THEN Did("quiet", None)   \* .get('delta', {}).get('content', '')
    ELSE
    LET delta == first.v["delta"] IN
    IF delta.t # "obj" THEN Did("error", None)               \* no .get
    ELSE
    LET content == IF "content" \in DOMAIN delta.v
                   THEN delta.v["content"] ELSE Str("")
    IN
    IF Truthy(content) THEN Did("print", content) ELSE Did("quiet", None)

\* lines 231-233: decode, then remove 'data: ' if present
LineText(line) == IF StartsWithData(line) THEN DropPrefix(line) ELSE line

\* a variant of the loop body in which a chunk that fails to decode ends the loop
ProcessLine_StopsOnBadChunk(line) ==
    IF Len(line) = 0 THEN Did("skip", None)
    ELSE IF DecodeFails(line) THEN Did("error", None)
    ELSE IF IsDoneText(LineText(line)) THEN Did("break", None)
    ELSE IF ~JsonLoads(LineText(line)).ok THEN Did("break", None)
    ELSE ChunkContent(JsonLoads(LineText(line)).value)

ProcessLine(line) ==
    IF Len(line) = 0 THEN Did("skip", None)
    ELSE IF DecodeFails(line) THEN Did("error", None)        \* UnicodeDecodeError
    ELSE
    LET line_text == LineText(line) IN
    IF IsDoneText(line_text) THEN Did("break", None)
    ELSE
    LET decoded == JsonLoads(line_text) IN
    IF ~decoded.ok THEN Did("decode", None)
    ELSE ChunkContent(decoded.value)

(***************************************************************************)
(* The client's constants (__init__, lines 17-73) and call_api's defaults. *)
(***************************************************************************)
base_url == "https://api.perplexity.ai/chat/completions"
AcceptJson == "application/json"
AcceptStream == "text/event-stream"

\* self.headers as __init__ leaves it
InitHeaders ==
    [Authorization |-> "Bearer <api_key>", ContentType |-> "application/json",
     Accept |-> AcceptJson]

\* [m["name"] for m in self.models.values()], in table order
valid_models ==
    << "sonar", "sonar-pro", "sonar-reasoning", "sonar-reasoning-pro",
       "sonar-deep-research", "r1-1776" >>

\* a variant of lines 125-126 that accepts every name
IsValidModel_AcceptsAll(model) == TRUE

IsValidModel(model) == \E i \in 1..Len(valid_models) : valid_models[i] = model

\* line 101
DefaultSystemPrompt == Str("Be precise and concise.")

\* line 153
Roles == {Str("system"), Str("user"), Str("assistant")}

\* temperatures are counted in tenths: One stands for 1.0 and Zero for 0.0
One == 10
Zero == 0

Max(a, b) == IF a >= b THEN a ELSE b
Min(a, b) == IF a <= b THEN a ELSE b

\* line 158: max(0.0, min(1.0, temperature))
ClampTemperature(temperature) == Max(Zero, Min(One, temperature))

\* a variant of line 162 with max(0, max_tokens)
ClampMaxTokens_NonNegative(max_tokens) == Max(0, max_tokens)

\* line 162: max(1, max_tokens)
ClampMaxTokens(max_tokens) == Max(1, max_tokens)

\* lines 136-146: the messages the request is built from
DefaultMessages(system_prompt, prompt) ==
    << Obj([role |-> Str("system"), content |-> system_prompt]),
       Obj([role |-> Str("user"), content |-> prompt]) >>

EffectiveMessages(messages, system_prompt, prompt) ==
    IF messages = <<>> THEN DefaultMessages(system_prompt, prompt)
    ELSE messages[1]

\* lines 149-153, one message: "ok", or the ValueError raised
\* (callers pass dicts, as the signature says: the isinstance test passes)
CheckMessage(msg) ==
    IF ~(HasKey(msg, "role") /\ HasKey(msg, "content")) THEN "format"
    ELSE IF msg.v["role"] \notin Roles THEN "role"
    ELSE "ok"

\* lines 149-153, the loop: the first message that fails raises
RECURSIVE CheckMessages(_)
CheckMessages(msgs) ==
    IF Len(msgs) = 0 THEN "ok"
    ELSE IF CheckMessage(Head(msgs)) # "ok" THEN CheckMessage(Head(msgs))
    ELSE CheckMessages(Tail(msgs))

\* lines 155-165: the payload.  max_tokens is <<>> (None) or <<m>>.
BuildData(model, msgs, temperature, max_tokens, stream) ==
    LET base == [model |-> model, messages |-> msgs,
                 temperature |-> ClampTemperature(temperature)]
        withTokens == IF max_tokens # <<>>
                      THEN base @@ [max_tokens |-> ClampMaxTokens(max_tokens[1])]
                      ELSE base
    IN  IF stream THEN withTokens @@ [stream |-> TRUE] ELSE withTokens

\* a variant of lines 164-168 without the else branch
SetAccept_OnlyWhenStreaming(hdrs, stream) ==
    IF stream THEN [hdrs EXCEPT !.Accept = AcceptStream] ELSE hdrs

\* lines 164-168: what the call does to the shared headers
SetAccept(hdrs, stream) ==
    IF stream THEN [hdrs EXCEPT !.Accept = AcceptStream]
    ELSE [hdrs EXCEPT !.Accept = AcceptJson]

(***************************************************************************)
(* Responses.  A response is a status and a body; the body is a sequence   *)
(* of lines.  response.json() reads the whole body as one JSON document,   *)
(* response.iter_lines() yields the lines one at a time.                   *)
(***************************************************************************)
\* the body's text: the lines joined by line breaks (whitespace to json.loads)
RECURSIVE BodyText(_)
BodyText(body) ==
    IF Len(body) = 0 THEN <<>>
    ELSE IF Len(body) = 1 THEN body[1]
    ELSE body[1] \o <<Blank>> \o BodyText(Tail(body))

\* response.json()
ResponseJson(response) == JsonLoads(BodyText(response.body))

\* response.raise_for_status(): requests raises HTTPError for 4xx and 5xx
RaisesForStatus(status_code) == 400 <= status_code /\ status_code < 600

\* `key in x`: "yes", "no", or "raise" (TypeError) when x is no container
InTest(key, x) ==
    CASE x.t = "obj" -> IF key \in DOMAIN x.v THEN "yes" ELSE "no"
      [] x.t = "arr" -> IF \E i \in 1..Len(x.v) : x.v[i] = Str(key) THEN "yes" ELSE "no"
      [] x.t = "str" -> IF x.v = key THEN "yes" ELSE "no"
      [] OTHER -> "raise"

\* what the prints of a call report; the call-level except branches
\* (lines 204-222) all report ApiError and return None
ApiError == [e |-> "Error making API request / decoding / unexpected"]
NoChoices == [e |-> "Warning: No choices in response"]
ErrorDetails == [e |-> "Error Type / Error Message"]
InvalidModel == [e |-> "Error: Invalid model", available |-> valid_models]
NoWebSearch == [e |-> "Warning: Model may not have web search capability"]
ProbeError == [e |-> "Error during web search verification"]
ChunkDecodeError == [e |-> "Error decoding stream chunk"]
ChunkProcessError == [e |-> "Error processing stream"]
StreamCompleted == [e |-> "Stream completed"]
StreamHandlingError == [e |-> "Error in stream handling"]

Outcome(next, value, said) == [next |-> next, value |-> value, said |-> said]

\* lines 183-189: the details printed for a 400; "raise" when that code raises
Status400(response) ==
    LET error_data == ResponseJson(response) IN
    IF ~error_data.ok THEN "raise"
    ELSE IF InTest("error", error_data.value) = "raise" THEN "raise"
    ELSE IF InTest("error", error_data.value) = "no" THEN "nothing"
    ELSE IF error_data.value.t # "obj" THEN "raise"
    ELSE IF error_data.value.v["error"].t # "obj" THEN "raise"
    ELSE "details"

\* a variant of lines 196-202 that tests only `'choices' not in result`
ParseSync_KeyOnly(response) ==
    LET result == ResponseJson(response) IN
    IF ~result.ok THEN Outcome("return", None, {ApiError})
    ELSE IF InTest("choices", result.value) # "yes"
    THEN Outcome("return", None, {NoChoices})
    ELSE Outcome("return", result.value, {})

\* lines 196-202: the synchronous result
ParseSync(response) ==
    LET result == ResponseJson(response) IN
    IF ~result.ok THEN Outcome("return", None, {ApiError})   \* caught at 204 or 217
    ELSE IF InTest("choices", result.value) = "raise"
    THEN Outcome("return", None, {ApiError})
    ELSE IF InTest("choices", result.value) = "no"
    THEN Outcome("return", None, {NoChoices})
    ELSE IF result.value.t # "obj"
    THEN Outcome("return", None, {ApiError})        \* result['choices'] raises
    ELSE IF ~Truthy(result.value.v["choices"])
    THEN Outcome("return", None, {NoChoices})
    ELSE Outcome("return", result.value, {})

\* a variant of lines 180-222 in which the HTTPError of raise_for_status
\* is not caught
HandleResponse_HttpErrorEscapes(response, stream) ==
    IF RaisesForStatus(response.status_code) THEN Outcome("raise", None, {})
    ELSE IF stream THEN Outcome("stream", None, {})
    ELSE ParseSync(response)

\* lines 180-222 on a received response: the value call_api returns and
\* what it prints, or "stream" when the body goes to _handle_stream
HandleResponse(response, stream) ==
    IF response.status_code = 400 /\ Status400(response) = "raise"
    THEN Outcome("return", None, {ApiError})
    ELSE IF RaisesForStatus(response.status_code)
    THEN Outcome("return", None,
                 IF Status400(response) = "details"
                 THEN {ApiError, ErrorDetails} ELSE {ApiError})
    ELSE IF stream THEN Outcome("stream", None, {})
    ELSE ParseSync(response)

(***************************************************************************)
(* verify_web_search (lines 75-95), on the value its call_api returned.    *)
(***************************************************************************)
RefusalReplies == {"I cannot access web search", "I CANNOT ACCESS WEB SEARCH."}

\* "cannot access web search" not in response.lower()
Refuses(content) == content \in RefusalReplies

\* lines 89-92: the boolean returned, or "raise" (caught at line 93)
ProbeVerdict(result) ==
    IF ~(Truthy(result) /\ InTest("choices", result) = "yes") THEN "false"
    ELSE
    LET choices == result.v["choices"] IN
    IF choices.t # "arr" THEN "raise"
    ELSE IF ~HasKey(choices.v[1], "message") THEN "raise"
    ELSE
    LET message == choices.v[1].v["message"] IN
    IF ~HasKey(message, "content") THEN "raise"
    ELSE IF message.v["content"].t # "str" THEN "raise"
    ELSE IF Refuses(message.v["content"].v) THEN "false" ELSE "true"

(***************************************************************************)
(* The arguments callers pass and the responses the server sends.  An      *)
(* optional argument is <<>> when it is None (or left out) and <<x>> when  *)
(* it is the value x.                                                      *)
(***************************************************************************)
Models == {"sonar", "r1-1776", "not-a-real-model"}
Prompt == Str("Hi")
\* system_prompt: left out, passed as None, passed as a text
SystemPromptArgs == {<<>>, <<None>>, <<Str("Answer briefly.")>>}
Temperatures == {-50, 5, 30}
MaxTokensArgs == {<<>>, <<-10>>, <<0>>, <<500>>}

UserMsg == Obj([role |-> Str("user"), content |-> Str("Hi")])
NoRoleMsg == Obj([content |-> Str("Hi")])
NoContentMsg == Obj([role |-> Str("user")])
BadRoleMsg == Obj([role |-> Str("bogus"), content |-> Str("x")])
MessagesArgs ==
    { <<>>, << <<>> >>, << <<UserMsg>> >>, << <<NoRoleMsg>> >>,
      << <<NoContentMsg>> >>, << <<BadRoleMsg>> >>, << <<UserMsg, BadRoleMsg>> >> }

\* a streamed chunk carrying one fragment
Chunk(text) ==
    Obj([choices |-> Arr(<< Obj([delta |-> Obj([content |-> Str(text)])]) >>)])

Lines ==
    { <<>>,                                                  \* an empty line
      <<DataPrefix, Doc(Chunk("He"))>>,
      <<DataPrefix, Doc(Chunk("llo"))>>,
      <<DataPrefix, DoneText>>,                              \* data: [DONE]
      <<DoneText, Blank>>,                                   \* no prefix, padded
      <<DataPrefix, DataPrefix, DoneText>>,                  \* the prefix twice
      <<DataPrefix, BadJson>>,
      <<DataPrefix, Doc(Arr(<<Num(1)>>))>>,                  \* JSON, no object
      <<DataPrefix, Doc(Obj([choices |-> Arr(<< Obj([delta |-> None]) >>)]))>>,
      <<DataPrefix, Doc(Chunk(""))>> }                       \* an empty fragment

RECURSIVE SeqsUpTo(_, _)
SeqsUpTo(S, n) ==
    IF n = 0 THEN {<<>>}
    ELSE LET shorter == SeqsUpTo(S, n - 1)
         IN  shorter \cup {Append(q, x) : q \in shorter, x \in S}

StreamBodies == SeqsUpTo(Lines, MaxLines)

\* a completion with one assistant reply
Completion(text) ==
    Obj([choices |-> Arr(<< Obj([message |-> Obj([content |-> Str(text)])]) >>)])

SyncBodies ==
    { << <<Doc(Completion("It is 5 pm in New York."))>> >>,
      << <<Doc(Completion("I CANNOT ACCESS WEB SEARCH."))>> >>,
      << <<Doc(Obj([choices |-> Arr(<<>>)]))>> >>,
      << <<Doc(Obj([id |-> Str("x")]))>> >>,
      << <<Doc(Obj([choices |-> None]))>> >>,
      << <<Doc(Obj([choices |-> Str("abc")]))>> >>,
      << <<Doc(Obj([choices |-> Arr(<< Obj([index |-> Num(0)]) >>)]))>> >>,
      << <<Doc(Arr(<<Str("choices")>>))>> >>,
      << <<Doc(None)>> >>,
      << <<Doc(Obj([error |-> Obj([type |-> Str("invalid_model"),
                                   message |-> Str("...")])]))>> >>,
      << <<BadJson>> >>,
      <<>>,
      << <<DataPrefix, Doc(Chunk("He"))>>, <<DataPrefix, DoneText>> >> }

Statuses == {200, 201, 400, 500}

Response(status_code, body) == [status_code |-> status_code, body |-> body]

\* what the server may answer to a request: any status with a one-document
\* (or opaque) body, and an event stream when the request asked for one
Responses(stream) ==
    {Response(c, b) : c \in Statuses, b \in SyncBodies}
    \cup (IF stream THEN {Response(200, b) : b \in StreamBodies} ELSE {})

(***************************************************************************)
(* State.                                                                  *)
(***************************************************************************)
VARIABLES
    headers,    \* self.headers, shared by every call on the client
    stack,      \* the call stack: frames of call_api, verify_web_search, _handle_stream
    wire,       \* the HTTP request on its way to the server: <<>> or <<request>>
    ret,        \* what the frame that ended last handed to its caller
    said,       \* the reports printed during the current top-level call
    printed,    \* the fragments _handle_stream printed during the current call
    sent        \* the HTTP requests sent during the current top-level call

vars == <<headers, stack, wire, ret, said, printed, sent>>

NoRet == [kind |-> "none", value |-> None]
Returned(value) == [kind |-> "return", value |-> value]
Raised(what) == [kind |-> "raise", value |-> Str(what)]

Top == stack[Len(stack)]
Below == SubSeq(stack, 1, Len(stack) - 1)
SetTop(frame) == [stack EXCEPT ![Len(stack)] = frame]
At(fn, pc) == Len(stack) > 0 /\ Top.fn = fn /\ Top.pc = pc

\* a call_api frame at its first statement.  passed_system_prompt and
\* passed_messages keep the arguments as the caller passed them; the
\* parameter system_prompt is bound to its default when left out (line 101)
CallFrame(prompt, model, system_prompt, temperature, max_tokens, stream, messages, verify_web) ==
    [fn |-> "call_api", pc |-> "validate_model",
     prompt |-> prompt, model |-> model,
     passed_system_prompt |-> system_prompt, passed_messages |-> messages,
     system_prompt |-> IF system_prompt = <<>> THEN DefaultSystemPrompt
                       ELSE system_prompt[1],
     temperature |-> temperature, max_tokens |-> max_tokens,
     stream |-> stream, messages |-> messages, verify_web |-> verify_web,
     data |-> <<>>]

Init ==
    /\ headers = InitHeaders
    /\ stack = <<>>
    /\ wire = <<>>
    /\ ret = NoRet
    /\ said = {}
    /\ printed = <<>>
    /\ sent = 0

(***************************************************************************)
(* The caller (main's loop, or any user of the class): it calls call_api   *)
(* or verify_web_search on the client, one call at a time, and takes the   *)
(* result before it calls again.                                           *)
(***************************************************************************)
\* the caller has the outcome of its call and goes on (main's `while True`)
CallerContinues ==
    /\ stack = <<>>
    /\ ret.kind # "none"
    /\ ret' = NoRet
    /\ said' = {}
    /\ printed' = <<>>
    /\ sent' = 0
    /\ UNCHANGED <<headers, stack, wire>>

\* call_api(prompt, model, system_prompt, temperature, max_tokens, stream, messages, verify_web)
CallApi ==
    /\ stack = <<>>
    /\ ret.kind = "none"
    /\ \E model \in Models, system_prompt \in SystemPromptArgs,
          temperature \in Temperatures, max_tokens \in MaxTokensArgs,
          stream \in BOOLEAN, messages \in MessagesArgs, verify_web \in BOOLEAN :
          stack' = << CallFrame(Prompt, model, system_prompt, temperature,
                                max_tokens, stream, messages, verify_web) >>
    /\ UNCHANGED <<headers, wire, ret, said, printed, sent>>

\* verify_web_search(model), called directly (main, choice 3)
VerifyWebSearch ==
    /\ stack = <<>>
    /\ ret.kind = "none"
    /\ \E model \in Models :
          stack' = << [fn |-> "verify_web_search", pc |-> "call", model |-> model] >>
    /\ UNCHANGED <<headers, wire, ret, said, printed, sent>>

(***************************************************************************)
(* call_api, lines 124-168.                                                *)
(***************************************************************************)
\* lines 125-128: an unknown model is reported and None returned
ValidateModel ==
    /\ At("call_api", "validate_model")
    /\ IF ~IsValidModel(Top.model)
       THEN /\ said' = said \cup {InvalidModel}
            /\ ret' = Returned(None)
            /\ stack' = Below
       ELSE /\ stack' = SetTop([Top EXCEPT !.pc = "verify_web"])
            /\ UNCHANGED <<said, ret>>
    /\ UNCHANGED <<headers, wire, printed, sent>>

\* lines 130-131: with verify_web, verify_web_search(model) is called first
VerifyWeb ==
    /\ At("call_api", "verify_web")
    /\ IF Top.verify_web
       THEN stack' = Append(SetTop([Top EXCEPT !.pc = "after_verify"]),
                            [fn |-> "verify_web_search", pc |-> "call",
                             model |-> Top.model])
       ELSE stack' = SetTop([Top EXCEPT !.pc = "messages"])
    /\ UNCHANGED <<headers, wire, ret, said, printed, sent>>

\* lines 131-134: the probe said no: a warning, and the user is asked
\* whether to continue (input() is the user's answer, "y" or anything else)
AfterVerify ==
    /\ At("call_api", "after_verify")
    /\ ret.kind = "return"
    /\ IF Truthy(ret.value)
       THEN /\ stack' = SetTop([Top EXCEPT !.pc = "messages"])
            /\ ret' = NoRet
            /\ UNCHANGED said
       ELSE /\ said' = said \cup {NoWebSearch}
            /\ \E answer \in {"y", "n"} :
                  IF answer # "y"
                  THEN stack' = Below /\ ret' = Returned(None)
                  ELSE stack' = SetTop([Top EXCEPT !.pc = "messages"]) /\ ret' = NoRet
    /\ UNCHANGED <<headers, wire, printed, sent>>

\* lines 136-153: the default messages, and the check of every message;
\* the ValueError is raised to the caller
BuildMessages ==
    /\ At("call_api", "messages")
    /\ LET msgs == EffectiveMessages(Top.messages, Top.system_prompt, Top.prompt) IN
       IF CheckMessages(msgs) # "ok"
       THEN /\ stack' = Below
            /\ ret' = Raised("ValueError")
       ELSE /\ stack' = SetTop([Top EXCEPT !.messages = <<msgs>>, !.pc = "build"])
            /\ UNCHANGED ret
    /\ UNCHANGED <<headers, wire, said, printed, sent>>

\* lines 155-168: the payload, and the Accept header on the shared headers
BuildRequest ==
    /\ At("call_api", "build")
    /\ stack' = SetTop([Top EXCEPT
                          !.data = << BuildData(Top.model, Top.messages[1], Top.temperature,
                                                Top.max_tokens, Top.stream) >>,
                          !.pc = "post"])
    /\ headers' = SetAccept(headers, Top.stream)
    /\ UNCHANGED <<wire, ret, said, printed, sent>>

(***************************************************************************)
(* call_api, lines 170-222: the request and its response.                  *)
(***************************************************************************)
Request(hdrs, data) == [url |-> base_url, headers |-> hdrs, json |-> data]

\* the request's body asks for an event stream
IsStreaming(request) == "stream" \in DOMAIN request.json /\ request.json.stream = TRUE

\* line 177: requests.post(self.base_url, headers=self.headers, json=data).
\* Of its locals, the rest of call_api reads only `stream`.
Post ==
    /\ At("call_api", "post")
    /\ wire' = << Request(headers, Top.data[1]) >>
    /\ sent' = sent + 1
    /\ stack' = SetTop([fn |-> "call_api", pc |-> "receive", stream |-> Top.stream,
                        asked_stream |-> FALSE])
    /\ UNCHANGED <<headers, ret, said, printed>>

\* the request reaches the server; requests.post is still waiting
Deliver ==
    /\ At("call_api", "receive")
    /\ wire # <<>>
    /\ wire' = <<>>
    /\ stack' = SetTop([Top EXCEPT !.asked_stream = IsStreaming(wire[1])])
    /\ UNCHANGED <<headers, ret, said, printed, sent>>

\* line 177 raises a RequestException that carries no response (no
\* connection, a timeout): lines 204-216 report it and return None
ConnectionFails ==
    /\ At("call_api", "receive")
    /\ wire' = <<>>
    /\ said' = said \cup {ApiError}
    /\ ret' = Returned(None)
    /\ stack' = Below
    /\ UNCHANGED <<headers, printed, sent>>

\* line 177 returns: the server's response to the request in flight
Respond ==
    /\ At("call_api", "receive")
    /\ wire = <<>>
    /\ \E response \in Responses(Top.asked_stream) :
          stack' = SetTop([fn |-> "call_api", pc |-> "response",
                           stream |-> Top.stream, response |-> response])
    /\ UNCHANGED <<headers, wire, ret, said, printed, sent>>

\* lines 180-222 on the response: call_api returns, raises (never, as the
\* except branches stand), or hands the response to _handle_stream
HandleResp ==
    /\ At("call_api", "response")
    /\ LET o == HandleResponse(Top.response, Top.stream) IN
       IF o.next = "stream"
       THEN /\ stack' = Append(SetTop([fn |-> "call_api", pc |-> "stream"]),
                               [fn |-> "handle_stream", pc |-> "iter",
                                lines |-> Top.response.body, i |-> 1, how |-> "running"])
            /\ UNCHANGED <<ret, said>>
       ELSE /\ stack' = Below
            /\ ret' = IF o.next = "raise" THEN Raised("Exception") ELSE Returned(o.value)
            /\ said' = said \cup o.said
    /\ UNCHANGED <<headers, wire, printed, sent>>

(***************************************************************************)
(* _handle_stream, lines 224-251.  The frame holds the response's lines,   *)
(* the position i of the line the loop reads next, and how the loop ended. *)
(***************************************************************************)
\* one turn of the loop over response.iter_lines()
StreamLine ==
    /\ At("handle_stream", "iter")
    /\ Top.i <= Len(Top.lines)
    /\ LET did == ProcessLine(Top.lines[Top.i]) IN
       /\ stack' = SetTop(IF did.act = "break"
                          THEN [Top EXCEPT !.pc = "done", !.how = "break"]
                          ELSE [Top EXCEPT !.i = Top.i + 1])
       /\ printed' = IF did.act = "print" THEN Append(printed, did.out) ELSE printed
       /\ said' = CASE did.act = "break"  -> said \cup {StreamCompleted}
                    [] did.act = "decode" -> said \cup {ChunkDecodeError}
                    [] did.act = "error"  -> said \cup {ChunkProcessError}
                    [] OTHER -> said
    /\ UNCHANGED <<headers, wire, ret, sent>>

\* the lines are exhausted: the loop ends
StreamEnd ==
    /\ At("handle_stream", "iter")
    /\ Top.i > Len(Top.lines)
    /\ stack' = SetTop([Top EXCEPT !.pc = "done", !.how = "exhausted"])
    /\ UNCHANGED <<headers, wire, ret, said, printed, sent>>

\* reading the next line raises (the connection drops): lines 250-251
StreamRaise ==
    /\ At("handle_stream", "iter")
    /\ stack' = SetTop([Top EXCEPT !.pc = "done", !.how = "raise"])
    /\ said' = said \cup {StreamHandlingError}
    /\ UNCHANGED <<headers, wire, ret, printed, sent>>

\* _handle_stream returns None, and call_api returns that (line 194)
StreamReturn ==
    /\ At("handle_stream", "done")
    /\ stack' = SubSeq(stack, 1, Len(stack) - 2)
    /\ ret' = Returned(None)
    /\ UNCHANGED <<headers, wire, said, printed, sent>>

(***************************************************************************)
(* verify_web_search, lines 75-95.                                         *)
(***************************************************************************)
test_prompt == Str("What is the current time in New York? (This requires web search)")
ProbeSystemPrompt ==
    Str("You are a helpful assistant. If you can't access web search, say 'I cannot access web search'.")

\* lines 81-87: temperature 0.7, max_tokens 100, the other arguments default
ProbeCall ==
    /\ At("verify_web_search", "call")
    /\ stack' = Append(SetTop([Top EXCEPT !.pc = "result"]),
                       CallFrame(test_prompt, Top.model, <<ProbeSystemPrompt>>,
                                 7, <<100>>, FALSE, <<>>, FALSE))
    /\ UNCHANGED <<headers, wire, ret, said, printed, sent>>

\* lines 89-95
ProbeResult ==
    /\ At("verify_web_search", "result")
    /\ ret.kind # "none"
    /\ LET verdict == IF ret.kind = "raise" THEN "raise" ELSE ProbeVerdict(ret.value) IN
       /\ ret' = Returned(Bool(verdict = "true"))
       /\ said' = IF verdict = "raise" THEN said \cup {ProbeError} ELSE said
    /\ stack' = Below
    /\ UNCHANGED <<headers, wire, printed, sent>>

Next ==
    \/ CallerContinues
    \/ CallApi
    \/ VerifyWebSearch
    \/ ValidateModel
    \/ VerifyWeb
    \/ AfterVerify
    \/ BuildMessages
    \/ BuildRequest
    \/ Post
    \/ Deliver
    \/ ConnectionFails
    \/ Respond
    \/ HandleResp
    \/ StreamLine
    \/ StreamEnd
    \/ StreamRaise
    \/ StreamReturn
    \/ ProbeCall
    \/ ProbeResult

Spec == Init /\ [][Next]_vars

(***************************************************************************)
(* Vocabulary of the properties below, stated over the wire text and the   *)
(* state, independently of the handler's own operators.                    *)
(***************************************************************************)
Frames(fn) == {k \in 1..Len(stack) : stack[k].fn = fn}
\* no call is running; with an outcome in ret, a call has just ended
Idle == stack = <<>>
CatalogNames == {valid_models[k] : k \in 1..Len(valid_models)}

\* the text of a line after one leading "data: " is removed
AfterOnePrefix(line) ==
    IF Len(line) > 0 /\ line[1] = DataPrefix THEN SubSeq(line, 2, Len(line)) ELSE line

\* blanks, "[DONE]", blanks
IsSentinelLine(line) ==
    LET text == AfterOnePrefix(line) IN
    \E k \in 1..Len(text) :
        /\ text[k] = DoneText
        /\ \A m \in 1..Len(text) : m # k => text[m] = Blank

\* the JSON documents a line's text (after one prefix) consists of, blanks aside
DocsOf(line) ==
    LET text == AfterOnePrefix(line) IN
    IF \A m \in 1..Len(text) : text[m] = Blank \/ text[m].k = "doc"
    THEN SelectSeq(text, LAMBDA tok : tok.k = "doc")
    ELSE << Lit("no json") >>

IsJsonLine(line) == Len(DocsOf(line)) = 1 /\ DocsOf(line)[1].k = "doc"

\* a chunk of the protocol's shape: {"choices": [{"delta": {"content": <text>}}, ...]}
IsChunkValue(j) ==
    /\ HasKey(j, "choices")
    /\ j.v["choices"].t = "arr"
    /\ Len(j.v["choices"].v) > 0
    /\ HasKey(j.v["choices"].v[1], "delta")
    /\ HasKey(j.v["choices"].v[1].v["delta"], "content")
    /\ j.v["choices"].v[1].v["delta"].v["content"].t = "str"

IsValidChunkLine(line) ==
    ~IsSentinelLine(line) /\ IsJsonLine(line) /\ IsChunkValue(DocsOf(line)[1].j)

\* choices[0].delta.content of a valid chunk line, when not empty
FragmentsOf(line) ==
    IF IsValidChunkLine(line)
       /\ DocsOf(line)[1].j.v["choices"].v[1].v["delta"].v["content"].v # ""
    THEN << DocsOf(line)[1].j.v["choices"].v[1].v["delta"].v["content"] >>
    ELSE <<>>

\* the position of the first sentinel line, Len + 1 when there is none
FirstSentinel(lines) ==
    IF \E k \in 1..Len(lines) : IsSentinelLine(lines[k])
    THEN CHOOSE k \in 1..Len(lines) :
            IsSentinelLine(lines[k]) /\ \A m \in 1..(k - 1) : ~IsSentinelLine(lines[m])
    ELSE Len(lines) + 1

\* the fragments of lines 1..n, in line order
RECURSIVE FragmentsUpTo(_, _)
FragmentsUpTo(lines, n) ==
    IF n = 0 THEN <<>>
    ELSE FragmentsUpTo(lines, n - 1) \o FragmentsOf(lines[n])

\* what a stream is to print: the fragments before its first sentinel
ExpectedFragments(lines) == FragmentsUpTo(lines, FirstSentinel(lines) - 1)

\* a line whose processing fails: text that is no JSON, JSON that is no
\* object, or a chunk whose choices[0] is not of the expected shape
IsFailingLine(line) ==
    /\ Len(line) > 0
    /\ ~IsSentinelLine(line)
    /\ \/ ~IsJsonLine(line)
       \/ DocsOf(line)[1].j.t # "obj"
       \/ /\ HasKey(DocsOf(line)[1].j, "choices")
          /\ Truthy(DocsOf(line)[1].j.v["choices"])
          /\ ~IsChunkValue(DocsOf(line)[1].j)
          /\ \/ DocsOf(line)[1].j.v["choices"].t # "arr"
             \/ DocsOf(line)[1].j.v["choices"].v[1].t # "obj"
             \/ /\ HasKey(DocsOf(line)[1].j.v["choices"].v[1], "delta")
                /\ DocsOf(line)[1].j.v["choices"].v[1].v["delta"].t # "obj"

\* the handler's frame and how far it has read
InStream == Len(stack) > 0 /\ Top.fn = "handle_stream"
Consumed == IF Top.pc = "iter" THEN Top.i - 1
            ELSE IF Top.how = "break" THEN Top.i ELSE Top.i - 1

(***************************************************************************)
(* C1.  If a call ends in a validation failure (unknown model, a message   *)
(* without role or content, a role outside system/user/assistant), no HTTP *)
(* request was sent at any point during the call, the nested capability    *)
(* probe included.                                                         *)
(***************************************************************************)
C1_NoRequestBeforeValidationFailure ==
    (Idle /\ (ret.kind = "raise" \/ InvalidModel \in said)) => sent = 0

(***************************************************************************)
(* C2.  A model that is the name of no catalog entry: call_api ends at     *)
(* once with the failure value and the report that lists every valid       *)
(* model name, verify_web_search (which delegates) answers False, and no   *)
(* HTTP request is issued, whatever the other arguments are.               *)
(***************************************************************************)
C2_UnknownModelRejected ==
    [][ /\ (At("call_api", "validate_model") /\ Top.model \notin CatalogNames) =>
              /\ stack' = Below
              /\ ret' = Returned(None)
              /\ InvalidModel \in said'
              /\ {InvalidModel.available[k] : k \in 1..Len(InvalidModel.available)}
                    = CatalogNames
              /\ wire = <<>> /\ wire' = <<>>
              /\ sent = 0 /\ sent' = 0
        /\ (At("verify_web_search", "result") /\ Top.model \notin CatalogNames) =>
              /\ ret' = Returned(Bool(FALSE))
              /\ InvalidModel \in said'
              /\ wire' = <<>>
              /\ sent' = 0
      ]_vars

\* a call with an unknown model has ended: reported, None, nothing sent
C2_Witness ==
    /\ Idle
    /\ ret = Returned(None)
    /\ InvalidModel \in said
    /\ sent = 0

(***************************************************************************)
(* C3.  Every HTTP request that is sent carries Accept: text/event-stream  *)
(* exactly when its own stream flag is set and Accept: application/json    *)
(* otherwise, after any sequence of calls on the client: the shared        *)
(* headers never carry an earlier call's Accept into a later request.      *)
(***************************************************************************)
C3_AcceptMatchesStream ==
    \A k \in 1..Len(wire) :
        wire[k].headers.Accept = IF IsStreaming(wire[k]) THEN AcceptStream ELSE AcceptJson

\* a streaming request in flight, sent after the same call's probe request
C3_Witness ==
    /\ wire # <<>>
    /\ IsStreaming(wire[1])
    /\ sent = 2

(***************************************************************************)
(* C4.  For every sequence of response lines the stream handler prints     *)
(* the non-empty choices[0].delta.content of the valid chunk lines, in     *)
(* line order, and stops at the first line that (one leading "data: "      *)
(* removed, trimmed) is exactly "[DONE]": nothing of a later line is       *)
(* printed, and without a sentinel it ends when the lines are exhausted.   *)
(***************************************************************************)
C4_StreamStopsAtSentinel ==
    InStream =>
        /\ Consumed <= FirstSentinel(Top.lines)
        /\ Consumed <= Len(Top.lines)
        /\ printed = FragmentsUpTo(Top.lines, Min(Consumed, FirstSentinel(Top.lines) - 1))
        /\ (Top.pc = "done" /\ Top.how = "break") =>
                /\ Top.i = FirstSentinel(Top.lines)
                /\ Top.i <= Len(Top.lines)
                /\ printed = ExpectedFragments(Top.lines)
        /\ (Top.pc = "done" /\ Top.how = "exhausted") =>
                /\ FirstSentinel(Top.lines) = Len(Top.lines) + 1
                /\ printed = ExpectedFragments(Top.lines)

\* the handler stopped at a sentinel, after printing, with a chunk line left unread
C4_Witness ==
    /\ InStream
    /\ Top.pc = "done"
    /\ Top.how = "break"
    /\ Top.i = 2
    /\ Top.i < Len(Top.lines)
    /\ printed # <<>>
    /\ printed = FragmentsOf(Top.lines[1])
    /\ FragmentsOf(Top.lines[Len(Top.lines)]) # <<>>

(***************************************************************************)
(* C5.  A line that fails to be processed (no JSON, JSON that is no        *)
(* object, a choices[0] of an unexpected shape) prints nothing and does    *)
(* not end the stream: it is reported as a skipped chunk, and every later  *)
(* valid chunk line before the sentinel still has its fragment printed,    *)
(* in order.                                                               *)
(***************************************************************************)
C5_FailingLineSkipped ==
    InStream =>
        \A k \in 1..Min(Consumed, Len(Top.lines)) :
            (IsFailingLine(Top.lines[k]) /\ k < FirstSentinel(Top.lines)) =>
                \* the loop did not end on line k
                /\ ~(Top.pc = "done" /\ Top.how # "raise" /\ Top.i = k)
                \* it was reported as a skipped chunk
                /\ said \cap {ChunkDecodeError, ChunkProcessError} # {}
                \* it printed nothing, and the lines read after it printed their fragments
                /\ \E n \in 0..Len(printed) :
                      /\ SubSeq(printed, 1, n) = FragmentsUpTo(Top.lines, k - 1)
                      /\ SubSeq(printed, n + 1, Len(printed)) =
                            FragmentsUpTo(SubSeq(Top.lines, k + 1, Len(Top.lines)),
                                          Min(Consumed, FirstSentinel(Top.lines) - 1) - k)

\* a failing line, then a valid chunk whose fragment was printed, then the sentinel
C5_Witness ==
    /\ InStream
    /\ Top.pc = "done"
    /\ Top.how = "break"
    /\ \E k \in 1..Len(Top.lines) :
          /\ IsFailingLine(Top.lines[k])
          /\ k + 1 < Top.i
          /\ FragmentsOf(Top.lines[k + 1]) # <<>>
          /\ printed = FragmentsOf(Top.lines[k + 1])

(***************************************************************************)
(* C6.  Without an explicit messages list the payload holds exactly two    *)
(* messages, {system, the system prompt} then {user, the prompt}; and when *)
(* the caller supplies no system prompt, passing None included, the system *)
(* message's content is "Be precise and concise.".                         *)
(***************************************************************************)
C6_DefaultMessages ==
    \A k \in Frames("call_api") :
        (stack[k].pc = "post" /\ stack[k].passed_messages = <<>>) =>
            stack[k].data[1].messages =
                << Obj([role |-> Str("system"),
                        content |-> IF stack[k].passed_system_prompt \in {<<>>, <<None>>}
                                    THEN Str("Be precise and concise.")
                                    ELSE stack[k].passed_system_prompt[1]]),
                   Obj([role |-> Str("user"), content |-> stack[k].prompt]) >>

(***************************************************************************)
(* C7.  Every request handed to the transport has a non-empty messages     *)
(* sequence, for every caller input with a valid model, an explicitly      *)
(* supplied empty messages list included.                                  *)
(***************************************************************************)
C7_MessagesNonEmpty ==
    \A k \in 1..Len(wire) : Len(wire[k].json.messages) > 0

\* a body that is one JSON document, and the value it denotes
IsJsonBody(body) == Len(body) = 1 /\ Len(body[1]) = 1 /\ body[1][1].k = "doc"
DecodedBody(body) == body[1][1].j
IsEmptyValue(x) ==
    \/ x = None
    \/ x.t = "arr" /\ Len(x.v) = 0
    \/ x.t = "str" /\ x.v = ""
HasNonEmptyChoices(j) == HasKey(j, "choices") /\ ~IsEmptyValue(j.v["choices"])

(***************************************************************************)
(* C8.  A non-streaming call whose response has a success status and a     *)
(* JSON body returns the decoded object if and only if it has a 'choices'  *)
(* entry that is not empty; with 'choices' missing or empty it returns     *)
(* None, the value a transport error gives, never an empty success.        *)
(***************************************************************************)
C8_EmptyChoicesIsFailure ==
    [][ ( /\ At("call_api", "response")
          /\ ~Top.stream
          /\ Top.response.status_code \in 200..299
          /\ IsJsonBody(Top.response.body) ) =>
            /\ stack' = Below
            /\ ret' = IF HasNonEmptyChoices(DecodedBody(Top.response.body))
                      THEN Returned(DecodedBody(Top.response.body))
                      ELSE Returned(None)
      ]_vars

\* a call has returned None for a success response without choices
C8_Witness ==
    /\ Idle
    /\ ret = Returned(None)
    /\ said = {NoChoices}
    /\ sent = 1

\* call_api has passed the checks of lines 124-153
PastValidation ==
    /\ Len(stack) > 0
    /\ \/ Top.fn = "handle_stream"
       \/ Top.fn = "call_api" /\ Top.pc \in {"build", "post", "receive", "response"}

(***************************************************************************)
(* C9.  Once validation has passed call_api raises nothing to its caller:  *)
(* a network failure, an HTTP error status, a body that is no JSON and an  *)
(* error while the stream is consumed each end the call with None; a       *)
(* stream line that fails to decode is reported for that line only and     *)
(* the handler reads on.                                                   *)
(***************************************************************************)
C9_NoExceptionAfterValidation ==
    [][ /\ PastValidation => ret'.kind # "raise"
        \* a network failure: the call ends without a response
        /\ (At("call_api", "receive") /\ Len(stack') < Len(stack)) =>
              ret' = Returned(None)
        \* an HTTP error status
        /\ (At("call_api", "response") /\ Top.response.status_code \in 400..599) =>
              (stack' = Below /\ ret' = Returned(None))
        \* a body that is no JSON, for a non-streaming call
        /\ (At("call_api", "response") /\ ~Top.stream
                /\ ResponseJson(Top.response).ok = FALSE) =>
              (stack' = Below /\ ret' = Returned(None))
        \* an error while the stream is consumed
        /\ (At("handle_stream", "done") /\ Top.how = "raise") =>
              (ret' = Returned(None) /\ Len(stack') = Len(stack) - 2)
        \* a line that fails to decode: reported as a chunk error, the loop goes on
        /\ (At("handle_stream", "iter") /\ Top.i <= Len(Top.lines)
                /\ Len(Top.lines[Top.i]) > 0
                /\ ~IsSentinelLine(Top.lines[Top.i]) /\ ~IsJsonLine(Top.lines[Top.i])
                /\ \A n \in 1..Len(Top.lines[Top.i]) : Top.lines[Top.i][n] # BadUtf8
                /\ Len(stack') = Len(stack) /\ stack'[Len(stack')].how # "raise") =>
              /\ stack'[Len(stack')].pc = "iter"
              /\ stack'[Len(stack')].i = Top.i + 1
              /\ said' = said \cup {ChunkDecodeError}
              /\ ret' = ret
      ]_vars

\* a call past validation has ended with None after a failed request
C9_Witness ==
    /\ Idle
    /\ ret = Returned(None)
    /\ ApiError \in said
    /\ sent = 1

(***************************************************************************)
(* C10.  Out-of-range numbers are clamped, never rejected: the payload's   *)
(* temperature is min(1, max(0, t)), its max_tokens is max(1, m) when the  *)
(* caller supplied m and absent exactly when the caller supplied none.     *)
(***************************************************************************)
C10_Clamped ==
    /\ \A k \in Frames("call_api") :
          stack[k].pc = "post" =>
              LET t == stack[k].temperature
                  m == stack[k].max_tokens
                  data == stack[k].data[1]
              IN  /\ data.temperature = (CASE t < Zero -> Zero [] t > One -> One [] OTHER -> t)
                  /\ ("max_tokens" \in DOMAIN data) <=> (m # <<>>)
                  /\ m # <<>> => data.max_tokens = (IF m[1] <= 0 THEN 1 ELSE m[1])
    /\ \A k \in 1..Len(wire) :
          /\ wire[k].json.temperature \in Zero..One
          /\ "max_tokens" \in DOMAIN wire[k].json => wire[k].json.max_tokens >= 1

\* a request in flight whose temperature and max_tokens were both clamped
\* (no caller passes 1.0 or 1: the values come from 3.0 and from -10 or 0)
C10_Witness ==
    /\ wire # <<>>
    /\ wire[1].json.temperature = One
    /\ "max_tokens" \in DOMAIN wire[1].json
    /\ wire[1].json.max_tokens = 1

====
